---- MODULE Spec2Model ----
(***************************************************************************)
(* Model of the stateful parts of the eb2 Slack gateway:                   *)
(*   - internal/server/slack.go : webhook handler, invite handlers and the *)
(*     package-level stateMap (CSRF state tokens);                         *)
(*   - slack/status.go          : the package-level statusCache and the    *)
(*     ESI route status message.                                           *)
(* Both caches are patrickmn/go-cache instances; every cache call is one   *)
(* atomic step (the library takes its mutex for each call), and handlers   *)
(* of different requests interleave between their cache calls.             *)
(* Time is counted in minutes.                                             *)
(***************************************************************************)
EXTENDS Integers, Sequences, FiniteSets, TLC

\* ---------------------------------------------------------------- bounds
NumTokens == 1
NumInviteReq == 2
MaxTime == 6
NumStatusReq == 2
MaxStatusTime == 2
NumWebhookReq == 1
NumSendReq == 2
MaxRouteCount == 60
MaxShortLen == 3
MaxCount == 6

\* ------------------------------------------------------ program constants
\* cache.New(time.Minute*5, time.Minute*5): default expiration of stateMap
StateTTL == 5
\* cache.New(time.Minute*1, time.Second*30): default expiration of statusCache
StatusTTL == 1
\* if processed > 50: the route lines generateRoutesString renders before it stops
RenderLimit == 50

Tokens == 1..NumTokens
InviteReqs == 1..NumInviteReq

VARIABLES
    now,            \* wall clock, in minutes
    stateMap,       \* stateMap: token -> item or NoItem
    issuedAt,       \* history: time handleGetSlackInvite stored the token, -1 if never
    deletedTokens,  \* history: tokens on which stateMap.Delete has run
    returnedTokens, \* history: tokens whose redeeming handler has returned
    ipc,            \* handlePostSlackInvite: position of each request
    ibody,          \* handlePostSlackInvite: the decoded body of each request
    ifound,         \* handlePostSlackInvite: the local `found`
    iview,          \* history: the facts about the token when stateMap.Get ran
    istatus,        \* handlePostSlackInvite: HTTP status written (0: none yet)
    itokenCalls,    \* handlePostSlackInvite: POSTs made to the token endpoint
    statusCache,    \* statusCache: version -> item or NoItem
    spc,            \* makeESIStatusMessage: position of each request
    sversion,       \* makeESIStatusMessage: the local `version`
    sroutes,        \* makeESIStatusMessage: the outer local `routes`
    sfetched,       \* makeESIStatusMessage: what fetchRouteStatuses returned
    sreply,         \* makeESIStatusMessage: what was posted to the channel
    supstream,      \* history: calls each request made to the status API
    ssolo,          \* history: no other request has run since this one started
    sevicted,       \* history: the request's Flush removed another version's snapshot
    sstoredAt,      \* history: when the item each version holds was stored, -1 if none
    sview,          \* history: what the cache held for the version at checkCache
    sposted,        \* history: PostMessage calls each request made
    slastSet,       \* history: the request that ran the last statusCache.Set of line 194
    wpc,            \* handlePostSlack: position of each request
    wreq,           \* handlePostSlack: the request as it arrived
    wstream,        \* handlePostSlack: the unread bytes of r.Body
    wverify,        \* handlePostSlack: what verifySlackReqeust returned
    wread,          \* handlePostSlack: the local `body`
    wconsumed,      \* history: the handler has run buf.ReadFrom(r.Body)
    wstatus,        \* handlePostSlack: HTTP status written (0: none yet)
    wecho,          \* handlePostSlack: the challenge echoed in the response
    wgo,            \* the goroutine of the request: none, spawned, processing, finished
    wprocessed,     \* history: calls of s.slack.ProcessEvent
    qpc,            \* handlePostSlackInviteSend: position of each request
    qreq,           \* handlePostSlackInviteSend: the request as it arrived
    qresp,          \* handlePostSlackInviteSend: the response written so far
    qposts          \* history: emails named in PostMessage calls to the mod channel

inviteVars == <<stateMap, issuedAt, deletedTokens, returnedTokens, ipc, ibody,
                ifound, iview, istatus, itokenCalls>>

statusVars == <<statusCache, spc, sversion, sroutes, sfetched, sreply, supstream,
                ssolo, sevicted, sstoredAt, sview, sposted, slastSet>>

webhookVars == <<wpc, wreq, wstream, wverify, wread, wconsumed, wstatus, wecho, wgo,
                 wprocessed>>

sendVars == <<qpc, qreq, qresp, qposts>>

VARIABLES
    rroutes,        \* the route list handed to generateRoutesString and the attachments loop
    ptop,           \* percentage: top
    pbottom,        \* percentage: bottom
    rtext,          \* what generateRoutesString returned
    ratt,           \* the attachments the loop built
    ppct            \* what percentage returned

formatVars == <<rroutes, ptop, pbottom, rtext, ratt, ppct>>

vars == <<now, inviteVars, statusVars, webhookVars, sendVars, formatVars>>

\* what the steps of each part leave alone
notInvite == <<statusVars, webhookVars, sendVars, formatVars>>
notStatus == <<inviteVars, webhookVars, sendVars, formatVars>>
notWebhook == <<now, inviteVars, statusVars, sendVars, formatVars>>
notSend == <<now, inviteVars, statusVars, webhookVars, formatVars>>
notFormat == <<now, inviteVars, statusVars, webhookVars, sendVars>>

\* ------------------------------------------------------------- go-cache
NoItem == [present |-> FALSE]

\* Cache.Set(k, v, d): d = 0 (DefaultExpiration) takes the cache's default;
\* an item expires at now + d when d > 0 and never otherwise (Expiration 0).
CacheSet(c, k, v, d, defaultExpiration, t) ==
    LET dd == IF d = 0 THEN defaultExpiration ELSE d
        e == IF dd > 0 THEN t + dd ELSE 0
    IN [c EXCEPT ![k] = [present |-> TRUE, value |-> v, exp |-> e]]

\* Item.Expired as Cache.Get tests it: Expiration > 0 and now > Expiration
ItemExpired(item, t) == item.exp > 0 /\ t > item.exp

\* Cache.Get(k): found only for a present item that has not expired
CacheFound(c, k, t) == c[k].present /\ ~ItemExpired(c[k], t)

\* Cache.Delete(k)
CacheDelete(c, k) == [c EXCEPT ![k] = NoItem]

\* Cache.Flush()
CacheFlush(c) == [k \in DOMAIN c |-> NoItem]

\* Cache.DeleteExpired(), run by the janitor
CacheDeleteExpired(c, t) ==
    [k \in DOMAIN c |-> IF c[k].present /\ ItemExpired(c[k], t) THEN NoItem ELSE c[k]]

\* ------------------------------------------------------------ the clock
Tick(max) ==
    /\ now < max
    /\ now' = now + 1

\* ------------------------------------------------- handleGetSlackInvite
\* tools.RandomString(16): a string no earlier call returned
RandomString(used) == Tokens \ used

IssuedTokens == {t \in Tokens : issuedAt[t] >= 0}

StoreState_NoExpiration(t) == CacheSet(stateMap, t, TRUE, -1, StateTTL, now)

\* stateMap.Set(state, true, 0)
StoreState(t) == CacheSet(stateMap, t, TRUE, 0, StateTTL, now)

handleGetSlackInvite ==
    \E t \in RandomString(IssuedTokens) :
        /\ stateMap' = StoreState(t)
        /\ issuedAt' = [issuedAt EXCEPT ![t] = now]
        /\ UNCHANGED <<deletedTokens, returnedTokens, ipc, ibody, ifound, iview,
                       istatus, itokenCalls>>

\* the janitor of stateMap
StateMapSweep ==
    /\ stateMap' = CacheDeleteExpired(stateMap, now)
    /\ stateMap' # stateMap
    /\ UNCHANGED <<issuedAt, deletedTokens, returnedTokens, ipc, ibody, ifound,
                   iview, istatus, itokenCalls>>

\* ------------------------------------------------ handlePostSlackInvite
\* a request body: one that does not decode, or a state and a code ("" or not)
NoState == 0
NoBody == [decodes |-> FALSE, state |-> NoState, code |-> ""]
InviteBodies ==
    {NoBody} \cup [decodes : {TRUE}, state : Tokens \cup {NoState}, code : {"", "code"}]

NoView == [issued |-> FALSE, deleted |-> FALSE, returned |-> FALSE,
           expired |-> FALSE, stored |-> FALSE]

IsValid_StateOnly(b) == b.state # NoState

\* SlackInvite.IsValid
IsValid(b) == b.state # NoState /\ b.code # ""

\* json Decode of the body and the IsValid check: 400 without touching stateMap
InviteDecode(r) ==
    /\ ipc[r] = "idle"
    /\ \E b \in InviteBodies :
        /\ ibody' = [ibody EXCEPT ![r] = b]
        /\ IF b.decodes /\ IsValid(b)
           THEN /\ ipc' = [ipc EXCEPT ![r] = "get"]
                /\ UNCHANGED istatus
           ELSE /\ ipc' = [ipc EXCEPT ![r] = "done"]
                /\ istatus' = [istatus EXCEPT ![r] = 400]
    /\ UNCHANGED <<stateMap, issuedAt, deletedTokens, returnedTokens, ifound,
                   iview, itokenCalls>>

StateCheck_Ignored(found) == TRUE

\* if !found { writeError(400); return }
StateCheck(found) == found

\* _, found := stateMap.Get(body.State) and the check of found
InviteGet(r) ==
    /\ ipc[r] = "get"
    /\ LET t == ibody[r].state
           found == CacheFound(stateMap, t, now)
       IN /\ ifound' = [ifound EXCEPT ![r] = found]
          /\ iview' = [iview EXCEPT ![r] =
                [issued |-> issuedAt[t] >= 0,
                 deleted |-> t \in deletedTokens,
                 returned |-> t \in returnedTokens,
                 expired |-> issuedAt[t] >= 0 /\ now > issuedAt[t] + StateTTL,
                 stored |-> stateMap[t].present]]
          /\ IF StateCheck(found)
             THEN /\ ipc' = [ipc EXCEPT ![r] = "delete"]
                  /\ UNCHANGED istatus
             ELSE /\ ipc' = [ipc EXCEPT ![r] = "done"]
                  /\ istatus' = [istatus EXCEPT ![r] = 400]
    /\ UNCHANGED <<stateMap, issuedAt, deletedTokens, returnedTokens, ibody,
                   itokenCalls>>

DeleteState_Kept(t) == stateMap

\* stateMap.Delete(body.State)
DeleteState(t) == CacheDelete(stateMap, t)

InviteDelete(r) ==
    /\ ipc[r] = "delete"
    /\ stateMap' = DeleteState(ibody[r].state)
    /\ deletedTokens' = deletedTokens \cup {ibody[r].state}
    /\ ipc' = [ipc EXCEPT ![r] = "exchange"]
    /\ UNCHANGED <<issuedAt, returnedTokens, ibody, ifound, iview, istatus,
                   itokenCalls>>

\* what the rest of the handler can meet: http.NewRequest fails, the POST
\* fails, the response does not decode, or all succeed
ExchangeOutcomes == {"newrequest_err", "do_err", "decode_err", "ok"}

\* http.DefaultClient.Do(req) runs unless http.NewRequest failed
TokenEndpointCalled(o) == o # "newrequest_err"

\* the status the handler writes for each outcome
ExchangeStatus(o) == IF o = "ok" THEN 200 ELSE 500

\* the code exchange with the token endpoint, up to the handler's return
InviteExchange(r) ==
    /\ ipc[r] = "exchange"
    /\ \E o \in ExchangeOutcomes :
        /\ itokenCalls' = [itokenCalls EXCEPT ![r] =
                              IF TokenEndpointCalled(o) THEN @ + 1 ELSE @]
        /\ istatus' = [istatus EXCEPT ![r] = ExchangeStatus(o)]
    /\ ipc' = [ipc EXCEPT ![r] = "done"]
    /\ returnedTokens' = IF ifound[r] THEN returnedTokens \cup {ibody[r].state}
                         ELSE returnedTokens
    /\ UNCHANGED <<stateMap, issuedAt, deletedTokens, ibody, ifound, iview>>

InitInvite ==
    /\ stateMap = [t \in Tokens |-> NoItem]
    /\ issuedAt = [t \in Tokens |-> -1]
    /\ deletedTokens = {}
    /\ returnedTokens = {}
    /\ ipc = [r \in InviteReqs |-> "idle"]
    /\ ibody = [r \in InviteReqs |-> NoBody]
    /\ ifound = [r \in InviteReqs |-> FALSE]
    /\ iview = [r \in InviteReqs |-> NoView]
    /\ istatus = [r \in InviteReqs |-> 0]
    /\ itokenCalls = [r \in InviteReqs |-> 0]

NextInvite ==
    \/ Tick(MaxTime) /\ UNCHANGED <<inviteVars, notInvite>>
    \/ handleGetSlackInvite /\ UNCHANGED <<now, notInvite>>
    \/ StateMapSweep /\ UNCHANGED <<now, notInvite>>
    \/ \E r \in InviteReqs : InviteDecode(r) /\ UNCHANGED <<now, notInvite>>
    \/ \E r \in InviteReqs : InviteGet(r) /\ UNCHANGED <<now, notInvite>>
    \/ \E r \in InviteReqs : InviteDelete(r) /\ UNCHANGED <<now, notInvite>>
    \/ \E r \in InviteReqs : InviteExchange(r) /\ UNCHANGED <<now, notInvite>>


\* ------------------------------------------------- claims on the invite flow
\* the request has run stateMap.Get
PastGet(r) == ibody[r].decodes /\ IsValid(ibody[r]) /\ ipc[r] \notin {"idle", "get"}

\* the request was rejected with 400 and made no call to the token endpoint
Rejected(r) == ipc[r] = "done" /\ istatus[r] = 400 /\ itokenCalls[r] = 0

\* C1: of all the callbacks that carry one token, at most one passes the
\* state check (finds the token in stateMap) and goes on to the code exchange.
C1_AtMostOneRedemption ==
    \A t \in Tokens :
        Cardinality({r \in InviteReqs : ifound[r] /\ ibody[r].state = t}) <= 1

\* C2: once a handler that found its token has returned (on any path), the
\* token is not in stateMap and never comes back, and a callback that looks the
\* token up after that return is rejected.
C2_RedeemedTokenGone ==
    \A r \in InviteReqs :
        /\ (ipc[r] = "done" /\ ifound[r]) => ~stateMap[ibody[r].state].present
        /\ (PastGet(r) /\ iview[r].returned) => (~ifound[r] /\ Rejected(r))

\* a handler found the token and returned after a failed exchange, and a later
\* callback with the same token was rejected
C2_Witness ==
    \E q, r \in InviteReqs :
        /\ ipc[q] = "done" /\ ifound[q] /\ istatus[q] = 500
        /\ PastGet(r) /\ ibody[r].state = ibody[q].state
        /\ iview[r].returned /\ Rejected(r)

\* C3: a token looked up more than StateTTL minutes after handleGetSlackInvite
\* stored it is rejected, whether or not the janitor has removed the item.
C3_ExpiredTokenRejected ==
    \A r \in InviteReqs :
        (PastGet(r) /\ iview[r].issued /\ iview[r].expired)
            => (~ifound[r] /\ Rejected(r))

\* a never redeemed token was rejected after its expiry while its item was
\* still stored (no sweep since it expired)
C3_Witness ==
    \E r \in InviteReqs :
        /\ PastGet(r) /\ iview[r].expired /\ iview[r].stored
        /\ ~iview[r].deleted /\ Rejected(r)

\* C4: the token endpoint is called only by a request that found its state in
\* stateMap; a state that was never issued, was already deleted by a redeeming
\* handler, or has expired gets 400 and no call.
C4_ExchangeOnlyWhenFound ==
    \A r \in InviteReqs :
        /\ itokenCalls[r] > 0 =>
              /\ ifound[r] /\ iview[r].stored /\ iview[r].issued
              /\ ~iview[r].deleted /\ ~iview[r].expired
        /\ (PastGet(r) /\ (~iview[r].issued \/ iview[r].deleted \/ iview[r].expired))
              => (~ifound[r] /\ Rejected(r))

\* one request called the token endpoint and another, carrying the state the
\* first had redeemed, was rejected
C4_Witness ==
    /\ \E r \in InviteReqs : itokenCalls[r] > 0
    /\ \E r \in InviteReqs : PastGet(r) /\ Rejected(r) /\ iview[r].deleted

\* a body that fails to decode, or has an empty state or an empty code
Malformed(b) == ~b.decodes \/ b.state = NoState \/ b.code = ""

\* C19: a request whose body fails to decode or has an empty state or an
\* empty code ends with 400 in its first step, which leaves stateMap as it
\* was: the token it names is neither looked up nor deleted, and stays
\* redeemable.
C19_MalformedBodyLeavesStateMap ==
    /\ [](\A r \in InviteReqs :
            (ipc[r] # "idle" /\ Malformed(ibody[r])) =>
                /\ Rejected(r)
                /\ ~ifound[r]
                /\ iview[r] = NoView)
    /\ [][\A r \in InviteReqs :
            (ipc'[r] # ipc[r] /\ Malformed(ibody'[r])) =>
                /\ stateMap' = stateMap
                /\ deletedTokens' = deletedTokens
                /\ \A t \in Tokens :
                        CacheFound(stateMap, t, now) => CacheFound(stateMap', t, now')]_vars

\* a callback that named a token with an empty code was rejected, and the
\* token is still found for a callback that has not come yet
C19_Witness ==
    \E q, r \in InviteReqs : \E t \in Tokens :
        /\ ibody[q] = [decodes |-> TRUE, state |-> t, code |-> ""]
        /\ Rejected(q)
        /\ ipc[r] = "idle"
        /\ CacheFound(stateMap, t, now)

\* ------------------------------------------------------- slack/status.go
StatusReqs == 1..NumStatusReq

\* the version a request asks for: "latest" unless the event carries a flag
Versions == {"latest", "dev"}

\* eb2.ESIStatus, as far as this file reads it
Route(m, p, s) == [Method |-> m, Route |-> p, Status |-> s]

\* answers of the status API (status.json) that decode
UpstreamAnswers ==
    { <<>>,
      <<Route("get", "/alliances/", "red"), Route("get", "/status/", "green"),
        Route("post", "/ui/", "yellow")>> }

\* the ways the fetch fails: http.Get, ioutil.ReadAll, json.Unmarshal
FetchFailures == {"get_err", "read_err", "unmarshal_err"}

categories ==
    << [Status |-> "red", Emoji |-> ":fire:", Color |-> "danger"],
       [Status |-> "yellow", Emoji |-> ":fire_engine:", Color |-> "warning"] >>

CategoryRoutes_Unfiltered(routes, category) == routes

\* the routes of one category, in their order
CategoryRoutes(routes, category) ==
    SelectSeq(routes, LAMBDA route : route.Status = category.Status)

\* float64 values, kept as exact fractions num/den with den > 0
Frac(n, d) == [num |-> n, den |-> d]
FracDiv(a, b) ==
    IF b.num < 0 THEN Frac(0 - a.num * b.den, 0 - a.den * b.num)
    ELSE Frac(a.num * b.den, a.den * b.num)
FracMul(a, b) == Frac(a.num * b.num, a.den * b.den)
FracSub(a, b) == Frac(a.num * b.den - b.num * a.den, a.den * b.den)
FracEq(a, b) == a.num * b.den = b.num * a.den

percentage_Share(top, bottom) ==
    IF bottom = 0 THEN Frac(0, 1)
    ELSE FracMul(FracDiv(Frac(top, 1), Frac(bottom, 1)), Frac(100, 1))

\* func percentage(top int, bottom int) float64
percentage(top, bottom) ==
    IF bottom = 0 THEN Frac(0, 1)
    ELSE FracSub(Frac(1, 1),
                 FracMul(FracDiv(Frac(top, 1), Frac(bottom, 1)), Frac(100, 1)))

\* strings.ToUpper on the methods the status API reports
ToUpper(method) ==
    CASE method = "get" -> "GET"
      [] method = "post" -> "POST"
      [] method = "put" -> "PUT"
      [] method = "delete" -> "DELETE"
      [] OTHER -> method

\* fmt.Sprintf("%s %s", strings.ToUpper(route.Method), route.Route)
RouteLine(route) == ToUpper(route.Method) \o " " \o route.Route

Remaining_AfterCurrent(routes, i) == Len(routes) - i - 1

\* len(routes[i:]), i counting from 0
Remaining(routes, i) == Len(routes) - i

\* fmt.Sprintf("%d", len(routes[i:]))
MarkerLine(routes, i) == ToString(Remaining(routes, i))

\* for i, route := range routes { ... }: the lines t after the loop, entered
\* at index i (from 0) with processed routes counted and t built so far
RECURSIVE RenderLoop(_, _, _, _)
RenderLoop(routes, i, processed, t) ==
    IF i >= Len(routes) THEN t
    ELSE LET counted == processed + 1
             lines == Append(t, RouteLine(routes[i + 1]))
         IN IF counted > RenderLimit
            THEN Append(lines, MarkerLine(routes, i))
            ELSE RenderLoop(routes, i + 1, counted, lines)

\* the three backquotes that open and close the rendered block
CodeFence == "code-fence"

\* func generateRoutesString: "" for no routes, else the lines joined by
\* newlines between two code fences
generateRoutesString(routes) ==
    IF Len(routes) = 0 THEN [fence |-> "", lines |-> <<>>]
    ELSE [fence |-> CodeFence, lines |-> RenderLoop(routes, 0, 0, <<>>)]

\* the attachments loop of makeESIStatusMessage
MakeAttachments(routes) ==
    LET bucket(c) == [Color |-> c.Color, Status |-> c.Status,
                      Routes |-> CategoryRoutes(routes, c), Total |-> Len(routes),
                      Percentage |-> percentage(Len(CategoryRoutes(routes, c)),
                                                Len(routes)),
                      Text |-> generateRoutesString(CategoryRoutes(routes, c))]
        all == [i \in 1..Len(categories) |-> bucket(categories[i])]
        kept == SelectSeq(all, LAMBDA a : Len(a.Routes) > 0)
    IN IF Len(kept) = 0 THEN << [Text |-> ":ok_hand:"] >> ELSE kept

NoReply == [kind |-> "none"]

\* checkCache(version)
checkCache(version) ==
    IF CacheFound(statusCache, version, now)
    THEN [routes |-> statusCache[version].value, found |-> TRUE]
    ELSE [routes |-> <<>>, found |-> FALSE]

Active(q) == spc[q] \notin {"idle", "done"}

\* what the cache holds for a version, by the time its item was stored: no
\* item, one stored at most StatusTTL ago, or one stored longer ago
SnapshotAge(v) ==
    IF sstoredAt[v] < 0 THEN "absent"
    ELSE IF now > sstoredAt[v] + StatusTTL THEN "stale" ELSE "fresh"

CacheMiss_Always(found) == TRUE

\* if !found { ... }
CacheMiss(found) == ~found

\* version := ...; routes, found := checkCache(version)
StatusCheck(r) ==
    /\ spc[r] = "idle"
    \* requests are numbered in the order their goroutines reach checkCache
    /\ \A q \in StatusReqs : q < r => spc[q] # "idle"
    /\ \E v \in Versions :
        /\ sversion' = [sversion EXCEPT ![r] = v]
        /\ sroutes' = [sroutes EXCEPT ![r] = checkCache(v).routes]
        /\ spc' = [spc EXCEPT ![r] = IF CacheMiss(checkCache(v).found)
                                      THEN "fetch" ELSE "post"]
        /\ sview' = [sview EXCEPT ![r] = SnapshotAge(v)]
    /\ ssolo' = [q \in StatusReqs |->
                    IF q = r THEN \A o \in StatusReqs \ {r} : ~Active(o)
                    ELSE IF spc[q] = "idle" THEN ssolo[q] ELSE FALSE]
    /\ UNCHANGED <<statusCache, sfetched, sreply, supstream, sevicted, sstoredAt,
                   sposted, slastSet>>

FailedFetchCache_Flushed == CacheFlush(statusCache)

\* fetchRouteStatuses returns nil, err before it reaches statusCache.Set
FailedFetchCache == statusCache

\* fetchRouteStatuses: http.Get, ReadAll and Unmarshal
StatusFetch(r) ==
    /\ spc[r] = "fetch"
    /\ supstream' = [supstream EXCEPT ![r] = @ + 1]
    /\ \/ \E e \in FetchFailures :
            /\ spc' = [spc EXCEPT ![r] = "posterr"]
            /\ statusCache' = FailedFetchCache
            /\ UNCHANGED sfetched
       \/ \E a \in UpstreamAnswers :
            /\ sfetched' = [sfetched EXCEPT ![r] = a]
            /\ spc' = [spc EXCEPT ![r] = "fetchset"]
            /\ UNCHANGED statusCache
    /\ UNCHANGED <<sversion, sroutes, sreply, ssolo, sevicted, sstoredAt, sview,
                   sposted, slastSet>>

\* fetchRouteStatuses: statusCache.Set(version, routes, 0)
StatusFetchSet(r) ==
    /\ spc[r] = "fetchset"
    /\ statusCache' = CacheSet(statusCache, sversion[r], sfetched[r], 0, StatusTTL, now)
    /\ sstoredAt' = [sstoredAt EXCEPT ![sversion[r]] = now]
    /\ spc' = [spc EXCEPT ![r] = "flush"]
    /\ UNCHANGED <<sversion, sroutes, sfetched, sreply, supstream, ssolo, sevicted,
                   sview, sposted, slastSet>>

FlushStatus_Skipped == statusCache

\* statusCache.Flush()
FlushStatus == CacheFlush(statusCache)

StatusFlush(r) ==
    /\ spc[r] = "flush"
    /\ statusCache' = FlushStatus
    /\ sevicted' = [sevicted EXCEPT ![r] =
                      \E w \in Versions \ {sversion[r]} : CacheFound(statusCache, w, now)]
    /\ sstoredAt' = [v \in Versions |-> IF statusCache'[v].present THEN sstoredAt[v] ELSE -1]
    /\ spc' = [spc EXCEPT ![r] = "set"]
    /\ UNCHANGED <<sversion, sroutes, sfetched, sreply, supstream, ssolo, sview,
                   sposted, slastSet>>

StoreSnapshot_NoExpiration(version, routes) ==
    CacheSet(statusCache, version, routes, -1, StatusTTL, now)

\* statusCache.Set(version, routes, 0)
StoreSnapshot(version, routes) ==
    CacheSet(statusCache, version, routes, 0, StatusTTL, now)

\* statusCache.Set(version, routes, 0), routes being the block's own variable:
\* the outer routes, which the attachments are built from, stays as checkCache
\* left it
StatusSet(r) ==
    /\ spc[r] = "set"
    /\ statusCache' = StoreSnapshot(sversion[r], sfetched[r])
    /\ sstoredAt' = [sstoredAt EXCEPT ![sversion[r]] = now]
    /\ slastSet' = r
    /\ spc' = [spc EXCEPT ![r] = "post"]
    /\ UNCHANGED <<sversion, sroutes, sfetched, sreply, supstream, ssolo, sevicted,
                   sview, sposted>>

\* the attachments and goslack.PostMessage(channel, MsgOptionAttachments(...))
StatusPost(r) ==
    /\ spc[r] = "post"
    /\ sreply' = [sreply EXCEPT ![r] =
                    [kind |-> "attachments", attachments |-> MakeAttachments(sroutes[r])]]
    /\ sposted' = [sposted EXCEPT ![r] = @ + 1]
    /\ spc' = [spc EXCEPT ![r] = "done"]
    /\ UNCHANGED <<statusCache, sversion, sroutes, sfetched, supstream, ssolo, sevicted,
                   sstoredAt, sview, slastSet>>

AfterErrorReply_FallsThrough == "post"

\* the return that follows the error reply
AfterErrorReply == "done"

\* goslack.PostMessage(channel, MsgOptionText(err.Error(), true)); return
StatusPostError(r) ==
    /\ spc[r] = "posterr"
    /\ sreply' = [sreply EXCEPT ![r] = [kind |-> "text"]]
    /\ sposted' = [sposted EXCEPT ![r] = @ + 1]
    /\ spc' = [spc EXCEPT ![r] = AfterErrorReply]
    /\ UNCHANGED <<statusCache, sversion, sroutes, sfetched, supstream, ssolo, sevicted,
                   sstoredAt, sview, slastSet>>

\* the janitor of statusCache
StatusCacheSweep ==
    /\ statusCache' = CacheDeleteExpired(statusCache, now)
    /\ statusCache' # statusCache
    /\ sstoredAt' = [v \in Versions |-> IF statusCache'[v].present THEN sstoredAt[v] ELSE -1]
    /\ UNCHANGED <<spc, sversion, sroutes, sfetched, sreply, supstream, ssolo, sevicted,
                   sview, sposted, slastSet>>

InitStatus ==
    /\ statusCache = [v \in Versions |-> NoItem]
    /\ spc = [r \in StatusReqs |-> "idle"]
    /\ sversion = [r \in StatusReqs |-> "latest"]
    /\ sroutes = [r \in StatusReqs |-> <<>>]
    /\ sfetched = [r \in StatusReqs |-> <<>>]
    /\ sreply = [r \in StatusReqs |-> NoReply]
    /\ supstream = [r \in StatusReqs |-> 0]
    /\ ssolo = [r \in StatusReqs |-> FALSE]
    /\ sevicted = [r \in StatusReqs |-> FALSE]
    /\ sstoredAt = [v \in Versions |-> -1]
    /\ sview = [r \in StatusReqs |-> "none"]
    /\ sposted = [r \in StatusReqs |-> 0]
    /\ slastSet = 0

NextStatus ==
    \/ Tick(MaxStatusTime) /\ UNCHANGED <<statusVars, notStatus>>
    \/ StatusCacheSweep /\ UNCHANGED <<now, notStatus>>
    \/ \E r \in StatusReqs : StatusCheck(r) /\ UNCHANGED <<now, notStatus>>
    \/ \E r \in StatusReqs : StatusFetch(r) /\ UNCHANGED <<now, notStatus>>
    \/ \E r \in StatusReqs : StatusFetchSet(r) /\ UNCHANGED <<now, notStatus>>
    \/ \E r \in StatusReqs : StatusFlush(r) /\ UNCHANGED <<now, notStatus>>
    \/ \E r \in StatusReqs : StatusSet(r) /\ UNCHANGED <<now, notStatus>>
    \/ \E r \in StatusReqs : StatusPost(r) /\ UNCHANGED <<now, notStatus>>
    \/ \E r \in StatusReqs : StatusPostError(r) /\ UNCHANGED <<now, notStatus>>

\* ------------------------------------------------ claims on the status cache
\* the request missed the cache and its fetch succeeded
Refreshed(r) == spc[r] \in {"post", "done"} /\ supstream[r] > 0 /\ sreply[r].kind # "text"

\* C5: when a request that ran alone missed the cache for its version and the
\* fetch succeeded, then after its last cache call the cache holds exactly one
\* entry, the version mapped to the fetched routes: checkCache returns the
\* fetched list for the version and not-found for every other version; and
\* while no other request runs, nothing else enters the cache.
C5_RefreshLeavesOneEntry ==
    /\ [][\A r \in StatusReqs :
            (spc[r] = "set" /\ spc'[r] = "post" /\ ssolo'[r]) =>
                \A w \in Versions :
                    IF w = sversion[r]
                    THEN /\ statusCache'[w].present
                         /\ statusCache'[w].value = sfetched[r]
                         /\ CacheFound(statusCache', w, now')
                    ELSE /\ ~statusCache'[w].present
                         /\ ~CacheFound(statusCache', w, now')]_vars
    /\ [](\A r \in StatusReqs :
            (Refreshed(r) /\ ssolo[r]) =>
                \A w \in Versions :
                    statusCache[w].present =>
                        (w = sversion[r] /\ statusCache[w].value = sfetched[r]))

\* a request that ran alone refreshed its version, and its Flush removed an
\* unexpired snapshot of another version
C5_Witness ==
    \E r \in StatusReqs :
        /\ Refreshed(r) /\ ssolo[r] /\ sevicted[r]
        /\ CacheFound(statusCache, sversion[r], now)
        /\ sfetched[r] # <<>>

\* a step of a request whose fetch fails
FailingStep(r) ==
    \/ spc[r] = "fetch" /\ spc'[r] = "posterr"
    \/ spc[r] = "posterr" /\ spc'[r] = "done"

\* C6: a request whose fetch fails leaves the status cache as it was: no entry
\* is added, replaced or flushed, and every version checkCache returned before
\* is still returned, with the same routes.
C6_FailedFetchKeepsCache ==
    [][\A r \in StatusReqs :
          FailingStep(r) =>
              /\ statusCache' = statusCache
              /\ \A w \in Versions :
                    CacheFound(statusCache, w, now) =>
                        /\ CacheFound(statusCache', w, now')
                        /\ statusCache'[w].value = statusCache[w].value]_vars

\* a request that ran alone ended with the error reply while an unexpired
\* snapshot, cached before it started, is still returned
C6_Witness ==
    \E r \in StatusReqs :
        /\ spc[r] = "done" /\ sreply[r].kind = "text" /\ ssolo[r]
        /\ \E w \in Versions : CacheFound(statusCache, w, now) /\ statusCache[w].value # <<>>

\* C11: a snapshot stored more than StatusTTL (60 seconds) ago and not stored
\* again since is not returned by checkCache, also while the sweep has not yet
\* removed it: the request takes the miss branch with no routes and goes to
\* the upstream.
C11_ExpiredSnapshotNotReturned ==
    \A r \in StatusReqs :
        sview[r] = "stale" =>
            /\ sroutes[r] = <<>>
            /\ spc[r] = "fetch" \/ supstream[r] > 0

\* a request found the expired item still in the cache and called the upstream
C11_Witness ==
    \E r \in StatusReqs : sview[r] = "stale" /\ supstream[r] = 1

\* the requests that missed the cache
Missers == {r \in StatusReqs : supstream[r] > 0}

\* C16: once concurrent requests that missed the cache for different versions,
\* and whose fetches all succeeded, have all finished, the cache holds no
\* entry but the version and routes of the request whose final Set ran last.
C16_LastWriterWins ==
    ( /\ \A r \in StatusReqs : ~Active(r)
      /\ Cardinality(Missers) > 1
      /\ \A r \in Missers : Refreshed(r)
      /\ \A r, q \in Missers : r # q => sversion[r] # sversion[q] )
    => \A w \in Versions :
            statusCache[w].present =>
                /\ w = sversion[slastSet]
                /\ statusCache[w].value = sfetched[slastSet]

\* C17: a request that missed the cache and fetched successfully posts the
\* buckets of the fetched route list, the reply a following cache hit for the
\* version posts.
C17_MissRepliesWithFetchedRoutes ==
    \A r \in StatusReqs :
        (spc[r] = "done" /\ Refreshed(r)) =>
            sreply[r] = [kind |-> "attachments",
                         attachments |-> MakeAttachments(sfetched[r])]

\* C18: a request calls the upstream only when checkCache found nothing it
\* returns: a request that met a snapshot stored at most StatusTTL ago, and
\* not flushed, makes no upstream call, replies from it, and none of its steps
\* changes the cache.
C18_UpstreamOnlyOnMiss ==
    /\ [](\A r \in StatusReqs :
            /\ supstream[r] > 0 => sview[r] \in {"absent", "stale"}
            /\ sview[r] = "fresh" =>
                    /\ supstream[r] = 0
                    /\ spc[r] \in {"post", "done"}
                    /\ spc[r] = "done" => sreply[r].kind = "attachments")
    /\ [][\A r \in StatusReqs :
            (sview'[r] = "fresh" /\ spc'[r] # spc[r]) =>
                statusCache' = statusCache]_vars

\* a request that met an unexpired snapshot replied without an upstream call
C18_Witness ==
    \E r \in StatusReqs :
        /\ sview[r] = "fresh" /\ spc[r] = "done" /\ supstream[r] = 0
        /\ sroutes[r] # <<>>

\* C20: every request makes exactly one PostMessage call, as its last step:
\* the error text when the fetch failed, with no status summary after it, the
\* status summary otherwise; an unfinished request has posted nothing.
C20_ExactlyOneReply ==
    /\ [](\A r \in StatusReqs : sposted[r] = IF spc[r] = "done" THEN 1 ELSE 0)
    /\ [][\A r \in StatusReqs :
            /\ (spc[r] = "posterr" /\ spc'[r] # spc[r]) =>
                    /\ spc'[r] = "done"
                    /\ sreply'[r].kind = "text"
                    /\ sposted'[r] = 1
            /\ (spc[r] = "post" /\ spc'[r] # spc[r]) =>
                    /\ spc'[r] = "done"
                    /\ sreply'[r].kind = "attachments"
                    /\ sposted'[r] = 1
            /\ sposted'[r] # sposted[r] => spc[r] \in {"post", "posterr"}]_vars

\* one request ended with the error text and another with the status summary,
\* each after one PostMessage
C20_Witness ==
    \E r, q \in StatusReqs :
        /\ spc[r] = "done" /\ sreply[r].kind = "text" /\ sposted[r] = 1
        /\ spc[q] = "done" /\ sreply[q].kind = "attachments" /\ sposted[q] = 1

\* ------------------------------------ handlePostSlack, verifySlackReqeust
WebhookReqs == 1..NumWebhookReq

\* s.config.SlackSigningSecret, and a key that is not it
SigningSecret == "secret"
SigningKeys == {SigningSecret, "other"}

\* request bodies, as the pieces the handler tells apart: the event type and
\* what comes with it
ChallengeBody == <<"url_verification", "challenge">>
BadChallengeBody == <<"url_verification", "challenge-not-a-string">>
MessageBody == <<"event_callback", "message">>
OtherEventBody == <<"event_callback", "reaction_added">>
GarbageBody == <<"not-json">>
Bodies == {ChallengeBody, BadChallengeBody, MessageBody, OtherEventBody, GarbageBody}

\* the v0 signature: HMAC-SHA256 under key of "v0:<timestamp>:<body>"
HMAC(key, ts, body) == [present |-> TRUE, key |-> key, ts |-> ts, body |-> body]
NoSignature == [present |-> FALSE, key |-> "", ts |-> "", body |-> <<>>]

\* X-Slack-Request-Timestamp: absent, outside the replay window, or fresh
Timestamps == {"missing", "stale", "fresh"}

\* a body other than b, for a signature made over another body
OtherBody(b) == IF b = MessageBody THEN ChallengeBody ELSE MessageBody

\* the signatures a request with timestamp t and body b may carry: none, the
\* genuine one, one made with another key, one made over another body
Signatures(t, b) ==
    {NoSignature, HMAC(SigningSecret, t, OtherBody(b))}
        \cup {HMAC(k, t, b) : k \in SigningKeys}

WebhookRequests ==
    UNION { { [sig |-> s, ts |-> t, body |-> b, readFails |-> f] :
                s \in Signatures(t, b), f \in BOOLEAN } :
            <<t, b>> \in Timestamps \X Bodies }

NoRequest == [sig |-> NoSignature, ts |-> "missing", body |-> <<>>, readFails |-> FALSE]

\* nslack.NewSecretsVerifier(req.Header, secret)
NewSecretsVerifier(req) ==
    IF ~req.sig.present \/ req.ts = "missing" THEN "missing_headers"
    ELSE IF req.ts = "stale" THEN "expired_timestamp"
    ELSE "ok"

\* verifier.Write(body); verifier.Ensure()
Ensure(req, body, secret) ==
    IF req.sig = HMAC(secret, req.ts, body) THEN "ok" ELSE "ensure_err"

ReattachBody_Dropped(stream, body) == stream

\* req.Body = ioutil.NopCloser(bytes.NewBuffer(body))
ReattachBody(stream, body) == body

\* verifySlackReqeust: the error it returns and the stream it leaves in req.Body;
\* a failing ReadAll has consumed k bytes
verifySlackReqeust(req, k) ==
    LET created == NewSecretsVerifier(req)
    IN IF created # "ok" THEN [err |-> created, stream |-> req.body]
       ELSE IF req.readFails
            THEN [err |-> "read_err", stream |-> SubSeq(req.body, k + 1, Len(req.body))]
            ELSE [err |-> Ensure(req, req.body, SigningSecret),
                  stream |-> ReattachBody(<<>>, req.body)]

VerifyFailed_Ignored(err) == FALSE

\* if err != nil { writeError(400); return }
VerifyFailed(err) == err # "ok"

\* err := verifySlackReqeust(r, secret) and the check of err
WebhookVerify(r) ==
    /\ wpc[r] = "idle"
    /\ \E req \in WebhookRequests : \E k \in 0..Len(req.body) :
        LET v == verifySlackReqeust(req, k)
        IN /\ wreq' = [wreq EXCEPT ![r] = req]
           /\ wverify' = [wverify EXCEPT ![r] = v.err]
           /\ wstream' = [wstream EXCEPT ![r] = v.stream]
           /\ IF VerifyFailed(v.err)
              THEN /\ wpc' = [wpc EXCEPT ![r] = "done"]
                   /\ wstatus' = [wstatus EXCEPT ![r] = 400]
              ELSE /\ wpc' = [wpc EXCEPT ![r] = "read"]
                   /\ UNCHANGED wstatus
    /\ UNCHANGED <<wread, wconsumed, wecho, wgo, wprocessed>>

\* slackevents.ParseEvent: the event type, or an error
ParseEvent(body) ==
    IF Len(body) = 2 /\ body[1] \in {"url_verification", "event_callback"}
    THEN body[1] ELSE "parse_err"

\* json.Unmarshal(body, &ChallengeResponse)
UnmarshalChallenge(body) == IF body[2] = "challenge" THEN "ok" ELSE "unmarshal_err"

\* buf.ReadFrom(r.Body), ParseEvent, the challenge echo, and the go statement
WebhookParse(r) ==
    /\ wpc[r] = "read"
    /\ LET body == wstream[r]
       IN /\ wread' = [wread EXCEPT ![r] = body]
          /\ wconsumed' = [wconsumed EXCEPT ![r] = TRUE]
          /\ wstream' = [wstream EXCEPT ![r] = <<>>]
          /\ IF ParseEvent(body) = "parse_err"
             THEN /\ wpc' = [wpc EXCEPT ![r] = "done"]
                  /\ wstatus' = [wstatus EXCEPT ![r] = 500]
                  /\ UNCHANGED <<wecho, wgo>>
             ELSE IF ParseEvent(body) = "url_verification"
             THEN /\ wpc' = [wpc EXCEPT ![r] = "done"]
                  /\ IF UnmarshalChallenge(body) = "ok"
                     THEN /\ wstatus' = [wstatus EXCEPT ![r] = 200]
                          /\ wecho' = [wecho EXCEPT ![r] = body[2]]
                     ELSE /\ wstatus' = [wstatus EXCEPT ![r] = 500]
                          /\ UNCHANGED wecho
                  /\ UNCHANGED wgo
             ELSE /\ wpc' = [wpc EXCEPT ![r] = "respond"]
                  /\ wgo' = [wgo EXCEPT ![r] = "spawned"]
                  /\ UNCHANGED <<wstatus, wecho>>
    /\ UNCHANGED <<wreq, wverify, wprocessed>>

ResponseReady_AfterProcessEvent(r) == wgo[r] = "finished"

\* the handler goes on to writeSuccess right after the go statement
ResponseReady(r) == TRUE

\* s.writeSuccess(ctx, w, nil, http.StatusOK)
WebhookRespond(r) ==
    /\ wpc[r] = "respond"
    /\ ResponseReady(r)
    /\ wstatus' = [wstatus EXCEPT ![r] = 200]
    /\ wpc' = [wpc EXCEPT ![r] = "done"]
    /\ UNCHANGED <<wreq, wstream, wverify, wread, wconsumed, wecho, wgo, wprocessed>>

\* the goroutine: the type switch, and the call of s.slack.ProcessEvent
GoroutineRun(r) ==
    /\ wgo[r] = "spawned"
    /\ IF wread[r][2] = "message"
       THEN /\ wgo' = [wgo EXCEPT ![r] = "processing"]
            /\ wprocessed' = [wprocessed EXCEPT ![r] = @ + 1]
       ELSE /\ wgo' = [wgo EXCEPT ![r] = "finished"]
            /\ UNCHANGED wprocessed
    /\ UNCHANGED <<wpc, wreq, wstream, wverify, wread, wconsumed, wstatus, wecho>>

\* s.slack.ProcessEvent returns, if it ever does
ProcessEventReturn(r) ==
    /\ wgo[r] = "processing"
    /\ wgo' = [wgo EXCEPT ![r] = "finished"]
    /\ UNCHANGED <<wpc, wreq, wstream, wverify, wread, wconsumed, wstatus, wecho,
                   wprocessed>>

InitWebhook ==
    /\ wpc = [r \in WebhookReqs |-> "idle"]
    /\ wreq = [r \in WebhookReqs |-> NoRequest]
    /\ wstream = [r \in WebhookReqs |-> <<>>]
    /\ wverify = [r \in WebhookReqs |-> "none"]
    /\ wread = [r \in WebhookReqs |-> <<>>]
    /\ wconsumed = [r \in WebhookReqs |-> FALSE]
    /\ wstatus = [r \in WebhookReqs |-> 0]
    /\ wecho = [r \in WebhookReqs |-> "none"]
    /\ wgo = [r \in WebhookReqs |-> "none"]
    /\ wprocessed = [r \in WebhookReqs |-> 0]

NextWebhook ==
    \/ \E r \in WebhookReqs : WebhookVerify(r) /\ UNCHANGED notWebhook
    \/ \E r \in WebhookReqs : WebhookParse(r) /\ UNCHANGED notWebhook
    \/ \E r \in WebhookReqs : WebhookRespond(r) /\ UNCHANGED notWebhook
    \/ \E r \in WebhookReqs : GoroutineRun(r) /\ UNCHANGED notWebhook
    \/ \E r \in WebhookReqs : ProcessEventReturn(r) /\ UNCHANGED notWebhook

\* the handler's goroutine is never blocked and the runtime schedules it; whether
\* ProcessEvent returns is up to the collaborator
FairWebhook ==
    \A r \in WebhookReqs :
        /\ WF_vars(WebhookParse(r) /\ UNCHANGED notWebhook)
        /\ WF_vars(WebhookRespond(r) /\ UNCHANGED notWebhook)
        /\ WF_vars(GoroutineRun(r) /\ UNCHANGED notWebhook)

\* ----------------------------------------------- handlePostSlackInviteSend
SendReqs == 1..NumSendReq

\* a request: whether the body decodes, its email, the token the middleware
\* left in the context, and whether PostMessage will succeed
SendRequests ==
    [decodes : BOOLEAN, email : {"", "pilot@example.com"},
     token : {"nil", "name_not_string", "named"}, postFails : BOOLEAN]

NoSendRequest == [decodes |-> FALSE, email |-> "", token |-> "nil", postFails |-> FALSE]

\* http.ResponseWriter: the status sent (0: none yet) and the documents written
NoResponse == [status |-> 0, body |-> <<>>]

\* w.WriteHeader(code): the first call sets the status, later ones are ignored
WriteHeader(w, code) == IF w.status = 0 THEN [w EXCEPT !.status = code] ELSE w

\* json.NewEncoder(w).Encode(doc): the first write sends 200 if no status was sent
Encode(w, doc) == [WriteHeader(w, 200) EXCEPT !.body = Append(@, doc)]

\* s.writeError(ctx, w, err, code)
writeError(w, code) == Encode(WriteHeader(w, code), "error")

EmailInvalid == "email_invalid"
Confirmation == "Your request has been submitted successfully"

\* if body.Email == "" { w.WriteHeader(400); Encode(email_invalid) }: the
\* block has no return
AfterEmailCheck(w, email) ==
    IF email = ""
    THEN [w |-> Encode(WriteHeader(w, 400), EmailInvalid), returned |-> FALSE]
    ELSE [w |-> w, returned |-> FALSE]

\* the handler up to the building of the message
SendValidate(r) ==
    /\ qpc[r] = "idle"
    /\ \E req \in SendRequests :
        /\ qreq' = [qreq EXCEPT ![r] = req]
        /\ IF ~req.decodes
           THEN /\ qresp' = [qresp EXCEPT ![r] = writeError(NoResponse, 400)]
                /\ qpc' = [qpc EXCEPT ![r] = "done"]
           ELSE LET checked == AfterEmailCheck(NoResponse, req.email)
                IN IF checked.returned
                   THEN /\ qresp' = [qresp EXCEPT ![r] = checked.w]
                        /\ qpc' = [qpc EXCEPT ![r] = "done"]
                   ELSE IF req.token = "nil"
                   THEN /\ qresp' = [qresp EXCEPT ![r] = writeError(checked.w, 500)]
                        /\ qpc' = [qpc EXCEPT ![r] = "done"]
                   ELSE IF req.token = "name_not_string"
                   THEN /\ qresp' = [qresp EXCEPT ![r] = WriteHeader(checked.w, 500)]
                        /\ qpc' = [qpc EXCEPT ![r] = "done"]
                   ELSE /\ qresp' = [qresp EXCEPT ![r] = checked.w]
                        /\ qpc' = [qpc EXCEPT ![r] = "post"]
    /\ UNCHANGED qposts

\* s.goslack.PostMessage(SlackModChannel, msg) and the reply
SendPost(r) ==
    /\ qpc[r] = "post"
    /\ qposts' = [qposts EXCEPT ![r] = Append(@, qreq[r].email)]
    /\ qresp' = [qresp EXCEPT ![r] =
                    IF qreq[r].postFails THEN WriteHeader(@, 500)
                    ELSE WriteHeader(Encode(@, Confirmation), 200)]
    /\ qpc' = [qpc EXCEPT ![r] = "done"]
    /\ UNCHANGED qreq

InitSend ==
    /\ qpc = [r \in SendReqs |-> "idle"]
    /\ qreq = [r \in SendReqs |-> NoSendRequest]
    /\ qresp = [r \in SendReqs |-> NoResponse]
    /\ qposts = [r \in SendReqs |-> <<>>]

NextSend ==
    \/ \E r \in SendReqs : SendValidate(r) /\ UNCHANGED notSend
    \/ \E r \in SendReqs : SendPost(r) /\ UNCHANGED notSend

\* ---------------------------------------------------- claims on the webhook
\* the request is one the verification must refuse: no signature header, no or
\* a stale timestamp header, or a signature that does not match the body
Unauthentic(req) ==
    \/ ~req.sig.present
    \/ req.ts \in {"missing", "stale"}
    \/ req.sig # HMAC(SigningSecret, req.ts, req.body)

\* C7: a request whose signature verification fails gets a 400 response and
\* nothing else: no challenge is echoed and no event reaches ProcessEvent.
C7_UnverifiedRequestRejected ==
    \A r \in WebhookReqs :
        (wpc[r] # "idle" /\ (Unauthentic(wreq[r]) \/ wverify[r] # "ok")) =>
            /\ wpc[r] = "done" /\ wstatus[r] = 400
            /\ wecho[r] = "none" /\ wgo[r] = "none" /\ wprocessed[r] = 0
            /\ ~wconsumed[r]

\* a message event whose signature was made over another body was refused
C7_Witness ==
    \E r \in WebhookReqs :
        /\ wpc[r] = "done" /\ wstatus[r] = 400
        /\ wreq[r].body = MessageBody /\ wreq[r].ts = "fresh"
        /\ wreq[r].sig = HMAC(SigningSecret, "fresh", OtherBody(MessageBody))
        /\ wverify[r] = "ensure_err"

\* the request passed the verification, carries a message event, and the
\* handler has not answered yet
VerifiedMessagePending(r) ==
    /\ wpc[r] \in {"read", "respond"}
    /\ wverify[r] = "ok" /\ wreq[r].body = MessageBody

\* C8: a verified message event is answered with 200 whether or not
\* ProcessEvent ever returns: the handler does not wait for it.
C8_ResponseWithoutWaiting ==
    \A r \in WebhookReqs :
        VerifiedMessagePending(r) ~> (wpc[r] = "done" /\ wstatus[r] = 200)

\* the 200 response of a message event is written while ProcessEvent is running
C8_Witness ==
    \E r \in WebhookReqs :
        /\ wpc[r] = "done" /\ wstatus[r] = 200
        /\ wread[r] = MessageBody /\ wgo[r] = "processing"

\* C9: once verifySlackReqeust has read the body, req.Body holds the original
\* bytes again, whether the signature then matches or not, and what the handler
\* reads from it is the original body.
C9_BodyRestored ==
    \A r \in WebhookReqs :
        /\ (wverify[r] \in {"ok", "ensure_err"} /\ ~wconsumed[r])
              => wstream[r] = wreq[r].body
        /\ wconsumed[r] => wread[r] = wreq[r].body

\* the handler has read the whole body of a verified request
C9_Witness ==
    \E r \in WebhookReqs :
        wconsumed[r] /\ wverify[r] = "ok" /\ wread[r] = MessageBody

\* ------------------------------------------------ claims on the invite send
\* C10: a request with an empty email gets a client error, and neither a
\* PostMessage to the moderation channel nor the confirmation message.
C10_EmptyEmailNotPosted ==
    \A r \in SendReqs :
        (qpc[r] = "done" /\ qreq[r].decodes /\ qreq[r].email = "") =>
            /\ qposts[r] = <<>>
            /\ qresp[r].status = 400
            /\ \A i \in 1..Len(qresp[r].body) : qresp[r].body[i] # Confirmation

\* ------------------------- generateRoutesString, percentage, attachments
Statuses == {"green", "yellow", "red"}
Methods == <<"get", "post">>
Patterns == {"green", "red", "mixed"}

\* the status of the i-th route of a list that follows a pattern
PatternStatus(pattern, i) ==
    IF pattern = "mixed" THEN <<"red", "yellow", "green">>[(i % 3) + 1] ELSE pattern

\* the i-th route of a list
RouteAt(i, status) == Route(Methods[(i % 2) + 1], "/route/" \o ToString(i) \o "/", status)

\* route lists of every length up to MaxRouteCount, one per pattern
LongLists ==
    { [i \in 1..n |-> RouteAt(i, PatternStatus(pattern, i))] :
        n \in 0..MaxRouteCount, pattern \in Patterns }

\* every route list of up to MaxShortLen routes, by status
ShortLists ==
    UNION { { [i \in 1..n |-> RouteAt(i, f[i])] : f \in [1..n -> Statuses] } :
            n \in 0..MaxShortLen }

RouteLists == LongLists \cup ShortLists

NotCalled == [called |-> FALSE]
Returned(v) == [called |-> TRUE, value |-> v]

\* generateRoutesString(routes)
GenerateRoutesString ==
    /\ ~rtext.called
    /\ rtext' = Returned(generateRoutesString(rroutes))
    /\ UNCHANGED <<rroutes, ptop, pbottom, ratt, ppct>>
    /\ UNCHANGED notFormat

\* the attachments loop run on routes
BuildAttachments ==
    /\ ~ratt.called
    /\ ratt' = Returned(MakeAttachments(rroutes))
    /\ UNCHANGED <<rroutes, ptop, pbottom, rtext, ppct>>
    /\ UNCHANGED notFormat

\* percentage(top, bottom)
Percentage ==
    /\ ~ppct.called
    /\ ppct' = Returned(percentage(ptop, pbottom))
    /\ UNCHANGED <<rroutes, ptop, pbottom, rtext, ratt>>
    /\ UNCHANGED notFormat

FormatIdle ==
    /\ rtext = NotCalled
    /\ ratt = NotCalled
    /\ ppct = NotCalled

\* no call under way: the state the other parts run in
InitFormat ==
    /\ rroutes = <<>>
    /\ ptop = 0
    /\ pbottom = 0
    /\ FormatIdle

\* the arguments of the calls: a route list, and counts with top <= bottom
InitFormatArgs ==
    /\ rroutes \in RouteLists
    /\ pbottom \in 0..MaxCount
    /\ ptop \in 0..pbottom
    /\ FormatIdle

NextFormat ==
    \/ GenerateRoutesString
    \/ BuildAttachments
    \/ Percentage

\* ------------------------------------------ claims on the status message
\* the lines generateRoutesString returned, and how many of them are the
\* lines of the list's routes, in order
RenderedLines == rtext.value.lines
RouteLineCount ==
    Cardinality({ j \in 1..Len(RenderedLines) :
                    j <= Len(rroutes) /\ RenderedLines[j] = RouteLine(rroutes[j]) })

C13_MarkerCountsTheRest ==
    rtext.called =>
        LET markers == Len(RenderedLines) - RouteLineCount
            rest == Len(rroutes) - RouteLineCount
        IN /\ RouteLineCount <= 51
           /\ markers > 0 <=> rest > 0
           /\ markers > 0 =>
                /\ markers = 1
                /\ RenderedLines[Len(RenderedLines)] = ToString(rest)

\* the positions of the routes of a status in the list, and the k-th of them
PositionsOf(status) == { j \in 1..Len(rroutes) : rroutes[j].Status = status }
KthPosition(status, k) ==
    CHOOSE j \in PositionsOf(status) :
        Cardinality({ i \in PositionsOf(status) : i <= j }) = k

\* the attachments that are category buckets
Buckets == SelectSeq(ratt.value, LAMBDA a : "Status" \in DOMAIN a)

\* C14: the attachments built for a route list are one per category with a
\* matching route, red before yellow, each holding exactly the routes of its
\* status in their original order; a category without a matching route has no
\* bucket, and an empty list has none at all.
C14_BucketsPerCategory ==
    ratt.called =>
        /\ [i \in 1..Len(Buckets) |-> Buckets[i].Status]
                = SelectSeq(<<"red", "yellow">>, LAMBDA c : PositionsOf(c) # {})
        /\ \A i \in 1..Len(Buckets) :
                LET b == Buckets[i]
                IN /\ Len(b.Routes) = Cardinality(PositionsOf(b.Status))
                   /\ \A k \in 1..Len(b.Routes) :
                        b.Routes[k] = rroutes[KthPosition(b.Status, k)]
        /\ Len(rroutes) = 0 => Len(Buckets) = 0

\* the loop ran on a list whose first yellow route comes before a green and a
\* red one, and built the red bucket before the yellow one
C14_Witness ==
    /\ ratt.called
    /\ Len(rroutes) = 3
    /\ rroutes[1].Status = "yellow" /\ rroutes[2].Status = "green"
    /\ rroutes[3].Status = "red"
    /\ Len(Buckets) = 2
    /\ Buckets[1].Routes = <<rroutes[3]>>

\* C15: percentage(top, bottom) is 0 when bottom is 0, and otherwise exactly
\* 1 - (top / bottom) * 100 with the division not rounded to an integer, so 1
\* when top is 0 and -99 when top equals bottom, for 0 <= top <= bottom.
C15_PercentageFormula ==
    ppct.called =>
        LET result == ppct.value
        IN /\ result.den > 0
           /\ pbottom = 0 => result.num = 0
           /\ pbottom # 0 =>
                /\ result.num * pbottom = (pbottom - 100 * ptop) * result.den
                /\ ptop = 0 => result.num = result.den
                /\ ptop = pbottom => result.num = (0 - 99) * result.den

\* percentage ran on 1 out of 3 and returned -97/3
C15_Witness ==
    /\ ppct.called
    /\ ptop = 1 /\ pbottom = 3
    /\ FracEq(ppct.value, Frac(0 - 97, 3))

\* -------------------------------------------------------- specifications
InitClock == now = 0

InitParts == InitClock /\ InitInvite /\ InitStatus /\ InitWebhook /\ InitSend

Init == InitParts /\ InitFormat

InitArgs == InitParts /\ InitFormatArgs

SpecInvite == Init /\ [][NextInvite]_vars

SpecStatus == Init /\ [][NextStatus]_vars

SpecWebhook == Init /\ [][NextWebhook]_vars

SpecWebhookFair == SpecWebhook /\ FairWebhook

SpecSend == Init /\ [][NextSend]_vars

SpecFormat == InitArgs /\ [][NextFormat]_vars

====
